---- MODULE Spec2Model ----
(***************************************************************************)
(* A model of accountsdb.AccountsDB: a pickled dictionary that maps a     *)
(* user's key (bot account name, ident@host or nick) to a stored value.   *)
(*                                                                         *)
(* Strings are sequences of one-character strings, so that str.lower,     *)
(* str.islower and str.split are computed character by character.  A      *)
(* Python dict is a sequence of [k, v] entries with distinct keys, in     *)
(* insertion order.  The file system is a function from paths to file     *)
(* contents.                                                               *)
(***************************************************************************)
EXTENDS Integers, Sequences, FiniteSets, TLC

VARIABLES
    addressing_mode,  \* self.addressing_mode
    case_sensitive,   \* self.case_sensitive
    users,            \* what ircdb.users.getUser does for each prefix
    db,               \* self.db
    fs,               \* the files at self.filename and self.filename + '.tmp'
    pc,               \* where the owning process is
    result,           \* outcome of the last call made on the store
    hist,             \* the set() calls that returned in this store's lifetime
    stale,            \* the flush under way, or just returned, found a temp file
    flushed,          \* what the last completed flush left at self.filename
    sets              \* how many set() calls have returned so far

vars == <<addressing_mode, case_sensitive, users, db, fs, pc, result, hist, stale,
          flushed, sets>>

----------------------------------------------------------------------------
(* Bounds *)

\* set() calls that return normally in one behaviour
MaxSets == 2

----------------------------------------------------------------------------
(* Characters and strings *)

UpperChars == {"A", "B", "H"}
LowerChars == {"a", "b", "h"}
OtherChars == {"1", "!"}
Chars == UpperChars \cup LowerChars \cup OtherChars

\* a dictionary key that is not a str (an int, say)
IntKey == <<"int">>

IsStr(key) == \A i \in 1..Len(key) : key[i] \in Chars

LowerChar(c) ==
    CASE c = "A" -> "a"
      [] c = "B" -> "b"
      [] c = "H" -> "h"
      [] OTHER -> c

\* str.lower()
lower(s) == [i \in 1..Len(s) |-> LowerChar(s[i])]

\* str.islower(): at least one cased character, and no uppercase one
islower(s) ==
    /\ \E i \in 1..Len(s) : s[i] \in UpperChars \cup LowerChars
    /\ \A i \in 1..Len(s) : s[i] \notin UpperChars

----------------------------------------------------------------------------
(* Python objects *)

None == "None"

\* The stored values are opaque to the store.  The files that exist before
\* the first store opens hold "p", "q" and "r"; the n-th set() call that
\* returns stores NewIds[n], a value no earlier call stored.
FileValues == {"p", "q", "r"}
NewIds == <<"x", "y", "z", "w">>

Entry(key, val) == [k |-> key, v |-> val]

DictKeys(items) == {items[i].k : i \in 1..Len(items)}

\* dict.get(key): None when the key is missing
DictGet(items, key) ==
    IF key \in DictKeys(items)
    THEN items[CHOOSE i \in 1..Len(items) : items[i].k = key].v
    ELSE None

\* an assignment that rebinds the dictionary to the one new entry
DictSetReplaceAll(items, key, val) == <<Entry(key, val)>>

\* d[key] = val: an existing key keeps its place, a new one goes last
DictSet(items, key, val) ==
    IF key \in DictKeys(items)
    THEN [i \in 1..Len(items) |->
            IF items[i].k = key THEN Entry(key, val) ELSE items[i]]
    ELSE Append(items, Entry(key, val))

\* del d[key]
DictDel(items, key) == SelectSeq(items, LAMBDA e : e.k # key)

Dict(items) == [type |-> "dict", items |-> items]
ListObj == [type |-> "list", items |-> <<>>]
NoObj == [type |-> "none", items |-> <<>>]

----------------------------------------------------------------------------
(* Files *)

filename == <<"accounts.db">>

\* a flush that writes over the database file itself
tmp_filename_in_place == filename

\* tmp_filename = self.filename + '.tmp'
tmp_filename == filename \o <<".tmp">>

Paths == {filename, tmp_filename}

Absent == [tag |-> "absent", obj |-> NoObj]
Corrupt == [tag |-> "corrupt", obj |-> NoObj]   \* bytes that are no pickle
Partial == [tag |-> "partial", obj |-> NoObj]   \* a pickle cut short

\* pickle.dump(obj, f, 2), written to the end
Pickled(obj) == [tag |-> "pickle", obj |-> obj]

----------------------------------------------------------------------------
(* Configuration and inputs *)

MODES == {"accounts", "identhost", "nicks"}

\* an addressing mode the registry would have refused
UnknownMode == "hostmasks"

ValidPrefixes == {<<"B", "!", "H">>, <<"b", "!", "h">>, <<"1", "!", "1">>}

\* a prefix with no '!' in it
MalformedPrefixes == {<<"B", "h">>}

Prefixes == ValidPrefixes \cup MalformedPrefixes

Found(name) == [kind |-> "found", name |-> name]
NotFound == [kind |-> "KeyError", name |-> <<>>]
LookupError == [kind |-> "DuplicateHostmask", name |-> <<>>]

LookupOutcomes == {Found(<<"A">>), NotFound, LookupError}

NoAccounts == [p \in ValidPrefixes |-> NotFound]

\* the bot's user database, fixed for the whole behaviour: one account with
\* two hostmasks; or one account, and a prefix that two accounts claim
Directories ==
    { [p \in ValidPrefixes |->
          IF p \in {<<"B", "!", "H">>, <<"b", "!", "h">>}
          THEN Found(<<"A">>) ELSE NotFound],
      [p \in ValidPrefixes |->
          CASE p = <<"B", "!", "H">> -> Found(<<"A">>)
            [] p = <<"b", "!", "h">> -> NotFound
            [] OTHER -> LookupError] }

\* dictionaries with str keys that a file may hold when the store opens it
StoredDicts ==
    { <<Entry(<<"b">>, "p"), Entry(<<"B">>, "q")>>,
      <<Entry(<<"B">>, "q"), Entry(<<"b">>, "p"), Entry(<<"1">>, "p")>> }

\* dictionaries whose keys are case variants of one another, in several
\* orders, with and without the lowercase form
VariantDicts ==
    { <<Entry(<<"B", "h">>, "p"), Entry(<<"b", "h">>, "q")>>,
      <<Entry(<<"b", "h">>, "p"), Entry(<<"B", "h">>, "q")>>,
      <<Entry(<<"B", "h">>, "p"), Entry(<<"b", "H">>, "q")>>,
      <<Entry(<<"B", "h">>, "p"), Entry(<<"b", "H">>, "q"), Entry(<<"b", "h">>, "r")>>,
      <<Entry(<<"b", "H">>, "p"), Entry(<<"b", "h">>, "q"), Entry(<<"B", "h">>, "r")>> }

VariantFiles == {Pickled(Dict(d)) : d \in VariantDicts}

\* the file is missing, or holds a dictionary with str keys
StoredFiles == {Absent} \cup {Pickled(Dict(d)) : d \in StoredDicts}

Unreadable == [tag |-> "unreadable", obj |-> NoObj]

\* files that cannot be read or unpickled, and pickles of something other
\* than a dictionary with str keys
ForeignFiles ==
    { Corrupt, Unreadable,
      Pickled(ListObj),
      Pickled(Dict(<<Entry(<<"B">>, "p"), Entry(IntKey, "q")>>)) }

----------------------------------------------------------------------------
(* AccountsDB *)

\* What a call did: the exception it raised (or None), the value it
\* returned, the key _get_key gave it, and the level of what it logged last.
Res(op, prefix, exc, val, user, log) ==
    [op |-> op, prefix |-> prefix, exc |-> exc, val |-> val, user |-> user,
     log |-> log]

NoCall == Res("none", <<>>, None, None, <<>>, None)

\* an __init__ without the loop
CaseShiftSkipped(items, copy) == items

\* a loop that keeps the lowercase entry when there is one already
RECURSIVE CaseShiftKeepExisting(_, _)
CaseShiftKeepExisting(items, copy) ==
    IF copy = <<>> THEN items
    ELSE LET key == Head(copy).k
             val == Head(copy).v
         IN  IF ~islower(key)
             THEN CaseShiftKeepExisting(
                      DictDel(IF lower(key) \in DictKeys(items) THEN items
                              ELSE DictSet(items, lower(key), val), key),
                      Tail(copy))
             ELSE CaseShiftKeepExisting(items, Tail(copy))

\* a loop that ends at the first key it shifts
RECURSIVE CaseShiftOnce(_, _)
CaseShiftOnce(items, copy) ==
    IF copy = <<>> THEN items
    ELSE LET key == Head(copy).k
             val == Head(copy).v
         IN  IF ~islower(key)
             THEN DictDel(DictSet(items, lower(key), val), key)
             ELSE CaseShiftOnce(items, Tail(copy))

\* the loop of __init__: every key of the copy that is not islower() is
\* stored again under key.lower() and then deleted
RECURSIVE CaseShift(_, _)
CaseShift(items, copy) ==
    IF copy = <<>> THEN items
    ELSE LET key == Head(copy).k
             val == Head(copy).v
         IN  IF ~islower(key)
             THEN CaseShift(DictDel(DictSet(items, lower(key), val), key), Tail(copy))
             ELSE CaseShift(items, Tail(copy))

\* the try block of __init__: self.db after it, and whether it raised
Load(f) ==
    IF f.tag = "pickle"
    THEN [raised |-> FALSE, obj |-> f.obj]
    ELSE [raised |-> TRUE, obj |-> Dict(<<>>)]

\* the else block of __init__: self.db after it, or the exception it raises
\* (a list has no items(), a key that is no str has no islower())
Normalized(obj) ==
    IF case_sensitive THEN [exc |-> None, obj |-> obj, log |-> None]
    ELSE IF obj.type # "dict"
         THEN [exc |-> "AttributeError", obj |-> obj, log |-> None]
    ELSE IF \E key \in DictKeys(obj.items) : ~IsStr(key)
         THEN [exc |-> "AttributeError", obj |-> obj, log |-> None]
    ELSE [exc |-> None, obj |-> Dict(CaseShift(obj.items, obj.items)),
          log |-> IF \E key \in DictKeys(obj.items) : ~islower(key)
                  THEN "debug" ELSE None]

\* AccountsDB.__init__: self.db, or the exception that escapes
Constructed(f) ==
    LET loaded == Load(f)
    IN  IF loaded.raised
        THEN [exc |-> None, obj |-> loaded.obj, log |-> "debug"]
        ELSE Normalized(loaded.obj)

\* prefix.partition('!') without its middle: always two parts
SplitPartition(prefix) ==
    IF \E i \in 1..Len(prefix) : prefix[i] = "!"
    THEN LET i == CHOOSE j \in 1..Len(prefix) :
                     /\ prefix[j] = "!"
                     /\ \A h \in 1..(j - 1) : prefix[h] # "!"
         IN  <<SubSeq(prefix, 1, i - 1), SubSeq(prefix, i + 1, Len(prefix))>>
    ELSE <<prefix, <<>>>>

\* prefix.split('!', 1)
Split(prefix) ==
    IF \E i \in 1..Len(prefix) : prefix[i] = "!"
    THEN LET i == CHOOSE j \in 1..Len(prefix) :
                     /\ prefix[j] = "!"
                     /\ \A h \in 1..(j - 1) : prefix[h] # "!"
         IN  <<SubSeq(prefix, 1, i - 1), SubSeq(prefix, i + 1, Len(prefix))>>
    ELSE <<prefix>>

\* ircdb.users.getUser(prefix)
getUser(prefix) == users[prefix]

\* an "accounts" mode without the except KeyError clause
AccountsKeyNoFallback(prefix, identhost) ==
    LET userobj == getUser(prefix)
    IN  IF userobj.kind = "found"
        THEN [exc |-> None, key |-> userobj.name]
        ELSE [exc |-> userobj.kind, key |-> <<>>]

\* an "accounts" mode whose except clause catches every Exception
AccountsKeyCatchAll(prefix, identhost) ==
    LET userobj == getUser(prefix)
    IN  IF userobj.kind = "found"
        THEN [exc |-> None, key |-> userobj.name]
        ELSE [exc |-> None, key |-> identhost]

\* the key the "accounts" mode gives
AccountsKey(prefix, identhost) ==
    LET userobj == getUser(prefix)
    IN  CASE userobj.kind = "found" -> [exc |-> None, key |-> userobj.name]
          [] userobj.kind = "KeyError" -> [exc |-> None, key |-> identhost]
          [] OTHER -> [exc |-> userobj.kind, key |-> <<>>]

\* a _get_key whose "identhost" mode asks for the bot account first
GetKeyAccountsFirst(prefix) ==
    LET parts == Split(prefix)
    IN  IF Len(parts) # 2 THEN [exc |-> "InvalidPrefix", key |-> <<>>]
        ELSE LET nick == parts[1]
                 identhost == parts[2]
             IN  CASE addressing_mode \in {"accounts", "identhost"} ->
                          AccountsKey(prefix, identhost)
                   [] addressing_mode = "nicks" -> [exc |-> None, key |-> nick]
                   [] OTHER -> [exc |-> "UnknownMode", key |-> <<>>]

\* a _get_key that falls back to the nick for a mode it does not know
GetKeyDefaultNick(prefix) ==
    LET parts == Split(prefix)
    IN  IF Len(parts) # 2 THEN [exc |-> "InvalidPrefix", key |-> <<>>]
        ELSE LET nick == parts[1]
                 identhost == parts[2]
             IN  CASE addressing_mode = "accounts" -> AccountsKey(prefix, identhost)
                   [] addressing_mode = "identhost" -> [exc |-> None, key |-> identhost]
                   [] OTHER -> [exc |-> None, key |-> nick]

\* AccountsDB._get_key
GetKey(prefix) ==
    LET parts == Split(prefix)
    IN  IF Len(parts) # 2 THEN [exc |-> "InvalidPrefix", key |-> <<>>]
        ELSE LET nick == parts[1]
                 identhost == parts[2]
             IN  CASE addressing_mode = "accounts" -> AccountsKey(prefix, identhost)
                   [] addressing_mode = "identhost" -> [exc |-> None, key |-> identhost]
                   [] addressing_mode = "nicks" -> [exc |-> None, key |-> nick]
                   [] OTHER -> [exc |-> "UnknownMode", key |-> <<>>]

\* a store that folds whatever case_sensitive says
FoldAlways(user) == lower(user)

\* if not self.case_sensitive: user = user.lower()
Fold(user) == IF case_sensitive THEN user ELSE lower(user)

\* a set() that forgets to fold the case
SetUserUnfolded(user) == user

\* the key set() stores under
SetUser(user) == Fold(user)

\* a get() that forgets to fold the case
GetUserUnfolded(user) == user

\* the key get() looks up
GetUser(user) == Fold(user)

\* AccountsDB.set: its outcome and self.db after it
SetCall(obj, prefix, newId) ==
    LET user == GetKey(prefix)
    IN  IF user.exc # None
        THEN [res |-> Res("set", prefix, user.exc, None, <<>>, None), obj |-> obj]
        ELSE IF obj.type # "dict"
        THEN [res |-> Res("set", prefix, "TypeError", None, user.key, None),
              obj |-> obj]
        ELSE [res |-> Res("set", prefix, None, None, user.key, None),
              obj |-> Dict(DictSet(obj.items, SetUser(user.key), newId))]

\* a get() that subscripts self.db: a missing key raises KeyError
GetCallSubscript(obj, prefix) ==
    LET user == GetKey(prefix)
    IN  IF user.exc # None
        THEN Res("get", prefix, user.exc, None, <<>>, None)
        ELSE IF obj.type # "dict"
        THEN Res("get", prefix, "TypeError", None, user.key, "debug")
        ELSE IF GetUser(user.key) \notin DictKeys(obj.items)
        THEN Res("get", prefix, "KeyError", None, user.key, "debug")
        ELSE Res("get", prefix, None, DictGet(obj.items, GetUser(user.key)),
                 user.key, "debug")

\* AccountsDB.get: its outcome
GetCall(obj, prefix) ==
    LET user == GetKey(prefix)
    IN  IF user.exc # None
        THEN Res("get", prefix, user.exc, None, <<>>, None)
        ELSE IF obj.type # "dict"
        THEN Res("get", prefix, "AttributeError", None, user.key, "debug")
        ELSE Res("get", prefix, None, DictGet(obj.items, GetUser(user.key)),
                 user.key, "debug")

\* an except clause that logs and raises again
FlushExceptRaised == Res("flush", <<>>, "OSError", None, <<>>, "exception")

\* the except clause of flush: the exception is logged, flush returns None
FlushExcept == Res("flush", <<>>, None, None, <<>>, "exception")

\* flush returns after shutil.move
FlushReturn == Res("flush", <<>>, None, None, <<>>, None)

----------------------------------------------------------------------------
(* Actions *)

Configured ==
    /\ addressing_mode \in MODES \cup {UnknownMode}
    /\ case_sensitive \in BOOLEAN
    /\ users \in Directories
    /\ sets = 0
    /\ db = NoObj
    /\ pc = "start"
    /\ result = NoCall
    /\ hist = <<>>
    /\ stale = FALSE

Init ==
    /\ Configured
    /\ \E f \in StoredFiles :
         /\ fs = [p \in Paths |-> IF p = filename THEN f ELSE Absent]
         /\ flushed = f

InitForeign ==
    /\ Configured
    /\ \E f \in StoredFiles \cup ForeignFiles :
         /\ fs = [p \in Paths |-> IF p = filename THEN f ELSE Absent]
         /\ flushed = f

\* a store under mode nicks opens a file whose keys are case variants
InitVariants ==
    /\ Configured
    /\ addressing_mode = "nicks"
    /\ \E f \in VariantFiles :
         /\ fs = [p \in Paths |-> IF p = filename THEN f ELSE Absent]
         /\ flushed = f

\* AccountsDB(plugin_name, filename, addressing_mode, case_sensitive)
Construct ==
    /\ pc \in {"start", "idle", "down", "nostore"}
    /\ LET made == Constructed(fs[filename])
       IN  /\ db' = IF made.exc = None THEN made.obj ELSE NoObj
           /\ pc' = IF made.exc = None THEN "idle" ELSE "nostore"
           /\ result' = Res("init", <<>>, made.exc, None, <<>>, made.log)
    /\ hist' = <<>>
    /\ UNCHANGED <<addressing_mode, case_sensitive, users, fs, flushed, sets>>
    /\ stale' = FALSE

Set(prefix) ==
    /\ pc = "idle"
    /\ sets < Len(NewIds)
    /\ LET call == SetCall(db, prefix, NewIds[sets + 1])
       IN  /\ call.res.exc = None => sets < MaxSets
           /\ db' = call.obj
           /\ result' = call.res
           /\ hist' = IF call.res.exc = None
                      THEN Append(hist, <<prefix, NewIds[sets + 1]>>) ELSE hist
           /\ sets' = IF call.res.exc = None THEN sets + 1 ELSE sets
    /\ UNCHANGED <<addressing_mode, case_sensitive, users, fs, pc, flushed>>
    /\ stale' = FALSE

Get(prefix) ==
    /\ pc = "idle"
    /\ result' = GetCall(db, prefix)
    /\ UNCHANGED <<addressing_mode, case_sensitive, users, db, fs, pc, hist,
                   flushed, sets>>
    /\ stale' = FALSE

\* open(tmp_filename, 'wb'): the file is created, or cut to nothing
FlushOpen ==
    /\ pc = "idle"
    /\ fs' = [fs EXCEPT ![tmp_filename] = Partial]
    /\ pc' = "flushOpen"
    /\ UNCHANGED <<addressing_mode, case_sensitive, users, db, result, hist,
                   flushed, sets>>
    /\ stale' = (fs[tmp_filename].tag # "absent")

\* open(tmp_filename, 'wb') raises
FlushOpenFail ==
    /\ pc = "idle"
    /\ result' = FlushExcept
    /\ UNCHANGED <<addressing_mode, case_sensitive, users, db, fs, pc, hist,
                   flushed, sets>>
    /\ stale' = FALSE

\* pickle.dump(self.db, f, 2) and the close of the file
FlushDump ==
    /\ pc = "flushOpen"
    /\ fs' = [fs EXCEPT ![tmp_filename] = Pickled(db)]
    /\ pc' = "flushDumped"
    /\ UNCHANGED <<addressing_mode, case_sensitive, users, db, result, hist,
                   flushed, sets>>
    /\ stale' = stale

\* pickle.dump raises part way (a value that cannot be pickled, a full disk)
FlushDumpFail ==
    /\ pc = "flushOpen"
    /\ pc' = "idle"
    /\ result' = FlushExcept
    /\ UNCHANGED <<addressing_mode, case_sensitive, users, db, fs, hist,
                   flushed, sets>>
    /\ stale' = FALSE

\* a move that leaves a file already at the target as it is
FlushMoveNoReplace ==
    /\ pc = "flushDumped"
    /\ fs' = [p \in Paths |->
                IF p = filename
                THEN IF fs[filename].tag = "absent" THEN fs[tmp_filename]
                     ELSE fs[filename]
                ELSE Absent]
    /\ pc' = "idle"
    /\ result' = FlushReturn
    /\ flushed' = fs[tmp_filename]
    /\ stale' = stale
    /\ UNCHANGED <<addressing_mode, case_sensitive, users, db, hist, sets>>

\* shutil.move(tmp_filename, self.filename): a rename within one directory
FlushMove ==
    /\ pc = "flushDumped"
    /\ fs' = [p \in Paths |-> IF p = filename THEN fs[tmp_filename] ELSE Absent]
    /\ pc' = "idle"
    /\ result' = FlushReturn
    /\ flushed' = fs[tmp_filename]
    /\ UNCHANGED <<addressing_mode, case_sensitive, users, db, hist, sets>>
    /\ stale' = stale

\* shutil.move raises
FlushMoveFail ==
    /\ pc = "flushDumped"
    /\ pc' = "idle"
    /\ result' = FlushExcept
    /\ UNCHANGED <<addressing_mode, case_sensitive, users, db, fs, hist,
                   flushed, sets>>
    /\ stale' = FALSE

\* the process dies inside flush; the files stay as they are
Crash ==
    /\ pc \in {"flushOpen", "flushDumped"}
    /\ pc' = "down"
    /\ db' = NoObj
    /\ hist' = <<>>
    /\ result' = NoCall
    /\ UNCHANGED <<addressing_mode, case_sensitive, users, fs, flushed, sets>>
    /\ stale' = FALSE

Next ==
    \/ Construct
    \/ \E prefix \in Prefixes : Set(prefix)
    \/ \E prefix \in Prefixes : Get(prefix)
    \/ FlushOpen
    \/ FlushOpenFail
    \/ FlushDump
    \/ FlushDumpFail
    \/ FlushMove
    \/ FlushMoveFail
    \/ Crash

Spec == Init /\ [][Next]_vars

SpecVariants == InitVariants /\ [][Next]_vars

SpecForeign == InitForeign /\ [][Next]_vars

----------------------------------------------------------------------------
(* Properties *)

HasSeparator(prefix) == \E i \in 1..Len(prefix) : prefix[i] = "!"

\* the key the mapping holds for a prefix that set() accepted
StoredKey(prefix) == Fold(GetKey(prefix).key)

\* no later set() of h went to the key of its i-th one
NotOverwritten(h, i) ==
    \A j \in (i + 1)..Len(h) : StoredKey(h[j][1]) # StoredKey(h[i][1])

Alive == pc \in {"idle", "flushOpen", "flushDumped"}

FlushStep ==
    \/ FlushOpen \/ FlushOpenFail
    \/ FlushDump \/ FlushDumpFail
    \/ FlushMove \/ FlushMoveFail

\* C1: right after a flush() that completed, a fresh store constructed from
\* the same path (same mode, same case sensitivity, same account directory)
\* returns for every prefix set in this store the value last set for its key.
C1_FlushReload ==
    (pc = "idle" /\ result = FlushReturn) =>
        LET fresh == Constructed(fs[filename])
        IN  /\ fresh.exc = None
            /\ \A i \in 1..Len(hist) :
                 NotOverwritten(hist, i) =>
                     GetCall(fresh.obj, hist[i][1]).val = hist[i][2]

\* C2: in a live store, get(p) returns without error the value v of every
\* earlier set(p, v) of this store that no later set() on an equal canonical
\* key has followed.
C2_RoundTrip ==
    Alive =>
        \A i \in 1..Len(hist) :
            NotOverwritten(hist, i) =>
                /\ GetCall(db, hist[i][1]).exc = None
                /\ GetCall(db, hist[i][1]).val = hist[i][2]

C2_Witness ==
    /\ Len(hist) = 2
    /\ NotOverwritten(hist, 1)
    /\ result.op = "get"
    /\ result.prefix = hist[1][1]
    /\ result.val = hist[1][2]

\* C3: the file at self.filename is never a partly written pickle, and every
\* step (a crash inside flush included) leaves it as it was or makes it the
\* complete pickle of self.db.
C3_CrashAtomic ==
    /\ [](fs[filename].tag # "partial")
    /\ [][fs'[filename] = fs[filename] \/ fs'[filename] = Pickled(db)]_vars

C3_Witness ==
    /\ pc = "down"
    /\ fs[tmp_filename].tag = "partial"
    /\ fs[filename].tag = "pickle"
    /\ sets > 0

\* C4: a case-insensitive store constructed from a file that holds a
\* dictionary F with str keys has exactly the keys lower(k), k a key of F,
\* each with the value F held under one of its case variants.
C4_LoadNormalizes ==
    (result.op = "init" /\ pc = "idle" /\ ~case_sensitive
        /\ fs[filename].tag = "pickle") =>
        LET F == fs[filename].obj.items
        IN  /\ DictKeys(db.items) = {lower(k) : k \in DictKeys(F)}
            /\ \A key \in DictKeys(db.items) :
                 \E k \in DictKeys(F) :
                    lower(k) = key /\ DictGet(F, k) = DictGet(db.items, key)

\* C5: in a case-insensitive store every key of self.db is its own lowercase
\* form, and no key occurs twice.
C5_LowercaseKeys ==
    (Alive /\ ~case_sensitive) =>
        /\ db.type = "dict"
        /\ \A key \in DictKeys(db.items) : lower(key) = key
        /\ Cardinality(DictKeys(db.items)) = Len(db.items)

C5_Witness ==
    /\ Alive
    /\ ~case_sensitive
    /\ fs[filename].tag = "pickle"
    /\ <<"B">> \in DictKeys(fs[filename].obj.items)
    /\ result.op = "set"
    /\ result.exc = None
    /\ result.user = <<"H">>
    /\ {<<"b">>, <<"h">>} \subseteq DictKeys(db.items)

\* C6: constructing the store raises nothing, whatever the file is, and when
\* the load fails the store starts with an empty dictionary.
C6_ConstructNeverFails ==
    result.op = "init" =>
        /\ result.exc = None
        /\ pc = "idle"
        /\ Load(fs[filename]).raised => db = Dict(<<>>)

C8_MalformedPrefix ==
    [][\A prefix \in {p \in Prefixes : ~HasSeparator(p)} :
          (Get(prefix) \/ Set(prefix)) =>
              /\ result'.exc = "InvalidPrefix"
              /\ db' = db
              /\ fs' = fs]_vars

C8_Witness ==
    /\ result.op = "set"
    /\ ~HasSeparator(result.prefix)
    /\ result.exc = "InvalidPrefix"
    /\ db.items # <<>>

\* C9: no step of flush() changes self.db; flush() returns None and raises
\* nothing, also when opening, dumping or moving fails; and a flush that
\* fails while opening or dumping leaves the file at self.filename as it was.
C9_FlushNeverRaises ==
    [][FlushStep =>
          /\ db' = db
          /\ pc' = "idle" => (result'.op = "flush" /\ result'.exc = None)
          /\ (FlushOpenFail \/ FlushDumpFail) => fs'[filename] = fs[filename]]_vars

C9_Witness ==
    /\ pc = "idle"
    /\ result = FlushExcept
    /\ fs[tmp_filename].tag = "partial"
    /\ hist # <<>>

\* C10: the file at self.filename always holds what the last completed
\* flush() left there (or what it held before the first store opened):
\* constructing the store, set() and get() leave the files alone.
C10_NoAutoFlush ==
    /\ [](fs[filename] = flushed)
    /\ [][fs' # fs =>
             ~(Construct \/ \E prefix \in Prefixes : Get(prefix) \/ Set(prefix))]_vars

C10_Witness ==
    /\ sets > 0
    /\ result.op = "init"
    /\ pc = "idle"
    /\ fs[filename].tag = "absent"
    /\ db = Dict(<<>>)


\* the part of a prefix that modes "nicks" and "identhost" store under
Component(prefix) ==
    IF addressing_mode = "nicks" THEN Split(prefix)[1] ELSE Split(prefix)[2]

\* C11: in a case-insensitive store under mode nicks (identhost), after
\* set(p, v), get(q) returns v for every prefix q whose nickname (ident@host)
\* differs from that of p only by letter case, until a later set() on that key.
C11_CaseInsensitiveAddressing ==
    (Alive /\ ~case_sensitive /\ addressing_mode \in {"nicks", "identhost"}) =>
        \A i \in 1..Len(hist) : \A q \in ValidPrefixes :
            (NotOverwritten(hist, i)
                /\ lower(Component(q)) = lower(Component(hist[i][1]))) =>
                /\ GetCall(db, q).exc = None
                /\ GetCall(db, q).val = hist[i][2]

C11_Witness ==
    /\ ~case_sensitive
    /\ addressing_mode = "nicks"
    /\ hist # <<>>
    /\ hist[Len(hist)][1] = <<"b", "!", "h">>
    /\ result.op = "get"
    /\ result.prefix = <<"B", "!", "H">>
    /\ result.val = hist[Len(hist)][2]

\* C12: get() of a prefix whose canonical key has no entry in self.db
\* returns None, raises nothing and leaves self.db as it was.
C12_MissingKey ==
    [][\A prefix \in ValidPrefixes :
          (/\ GetKey(prefix).exc = None
           /\ Fold(GetKey(prefix).key) \notin DictKeys(db.items)
           /\ Get(prefix)) =>
              /\ result'.exc = None
              /\ result'.val = None
              /\ db' = db]_vars

C12_Witness ==
    /\ result.op = "get"
    /\ HasSeparator(result.prefix)
    /\ result.exc = None
    /\ result.val = None
    /\ db.items # <<>>
    /\ Fold(result.user) \notin DictKeys(db.items)

\* C13: in mode accounts, when getUser raises something other than KeyError,
\* get() and set() raise that same exception and leave self.db and the files
\* as they were.
C13_LookupErrorPropagates ==
    [][\A prefix \in ValidPrefixes :
          (/\ addressing_mode = "accounts"
           /\ users[prefix].kind \notin {"found", "KeyError"}
           /\ (Get(prefix) \/ Set(prefix))) =>
              /\ result'.exc = users[prefix].kind
              /\ db' = db
              /\ fs' = fs]_vars

C13_Witness ==
    /\ addressing_mode = "accounts"
    /\ result.op = "set"
    /\ result.exc = "DuplicateHostmask"
    /\ db.items # <<>>


\* C14: in modes identhost and nicks every set() and get() of a prefix with a
\* separator succeeds, uses the ident@host (the nickname) as its key, and
\* its result and the new self.db are given by the mode, the case setting,
\* self.db and the arguments alone, whatever the user database holds: two
\* stores that differ only in the user database agree call by call.
C14_DirectoryIndependence ==
    [][\A prefix \in ValidPrefixes :
          (addressing_mode \in {"identhost", "nicks"}
              /\ (Get(prefix) \/ Set(prefix))) =>
              LET key == IF case_sensitive THEN Component(prefix)
                         ELSE lower(Component(prefix))
              IN  /\ result'.exc = None
                  /\ result'.user = Component(prefix)
                  /\ result'.op = "get" =>
                       /\ result'.val = DictGet(db.items, key)
                       /\ db' = db
                  /\ result'.op = "set" =>
                       db' = Dict(DictSet(db.items, key, NewIds[sets + 1]))]_vars

C14_Witness ==
    /\ addressing_mode = "identhost"
    /\ users[<<"1", "!", "1">>] = LookupError
    /\ result.op = "get"
    /\ result.prefix = <<"1", "!", "1">>
    /\ result.val = NewIds[1]


\* a case-insensitive store has just been constructed from a pickled dict
JustLoaded ==
    /\ result.op = "init"
    /\ pc = "idle"
    /\ ~case_sensitive
    /\ fs[filename].tag = "pickle"

\* the places in F of the case variants of key, and of those among them that
\* the loop of __init__ stores again
Variants(F, key) == {i \in 1..Len(F) : lower(F[i].k) = key}
Shifted(F, key) == {i \in Variants(F, key) : ~islower(F[i].k)}

Last(S) == CHOOSE i \in S : \A j \in S : j <= i

\* C15 as stated: after the load, each key holds the value of the last of its
\* case variants in the iteration order of the file's dictionary, the
\* already-lowercase form included.
C15_LastProcessedWins ==
    JustLoaded =>
        LET F == fs[filename].obj.items
        IN  \A key \in DictKeys(db.items) :
               DictGet(db.items, key) = F[Last(Variants(F, key))].v

\* C15 amended: after the load, each key holds the value of the last of its
\* case variants that is not already lowercase; the value of the lowercase
\* form is kept only when it has no other variant.
C15_LastShiftedWins ==
    JustLoaded =>
        LET F == fs[filename].obj.items
        IN  \A key \in DictKeys(db.items) :
               DictGet(db.items, key) =
                   IF Shifted(F, key) # {} THEN F[Last(Shifted(F, key))].v
                   ELSE DictGet(F, key)

C15_Witness ==
    /\ JustLoaded
    /\ Len(fs[filename].obj.items) = 3
    /\ fs[filename].obj.items[3].k = <<"b", "h">>
    /\ db.items = <<Entry(<<"b", "h">>, fs[filename].obj.items[2].v)>>


\* C16: a set() that returns changes the dictionary at the folded key of its
\* prefix and nowhere else: that key now holds the value, every other key
\* holds what it held, and no key is gained or lost besides; a get() that
\* returns leaves the dictionary as it was.
C16_SetTouchesOneEntry ==
    [][\A prefix \in ValidPrefixes :
          (result'.exc = None /\ (Set(prefix) \/ Get(prefix))) =>
              LET key == StoredKey(prefix)
              IN  /\ result'.op = "get" => db' = db
                  /\ result'.op = "set" =>
                       /\ db'.type = "dict"
                       /\ DictKeys(db'.items) = DictKeys(db.items) \cup {key}
                       /\ Len(db'.items) = Cardinality(DictKeys(db'.items))
                       /\ DictGet(db'.items, key) = NewIds[sets + 1]
                       /\ \A k \in DictKeys(db.items) \ {key} :
                            DictGet(db'.items, k) = DictGet(db.items, k)]_vars

\* the second set() wrote over the value of the first, beside another entry
C16_Witness ==
    /\ result.op = "set"
    /\ result.exc = None
    /\ Len(hist) = 2
    /\ ~NotOverwritten(hist, 1)
    /\ Len(db.items) >= 2
    /\ DictGet(db.items, Fold(result.user)) = NewIds[2]


\* C17: right after a flush() that ran to its end, the file at self.filename
\* is the pickle of self.db as it is then and no temp file is left, also
\* when the flush found a temp file that an earlier flush left behind.
C17_FlushPublishes ==
    (pc = "idle" /\ result = FlushReturn) =>
        /\ fs[filename] = Pickled(db)
        /\ fs[tmp_filename] = Absent

\* a flush that found an older temp file has returned, after a set()
C17_Witness ==
    /\ pc = "idle"
    /\ result = FlushReturn
    /\ stale
    /\ hist # <<>>
    /\ fs[filename] = Pickled(db)


\* C18: a store whose addressing mode is none of MODES is constructed
\* without an exception, and each get() and set() on a prefix with a
\* separator raises the unknown-mode ValueError and leaves self.db alone.
C18_UnknownMode ==
    [][addressing_mode = UnknownMode =>
          /\ Construct => (result'.exc = None /\ pc' = "idle")
          /\ \A prefix \in ValidPrefixes :
                (result'.prefix = prefix /\ (Get(prefix) \/ Set(prefix))) =>
                    /\ result'.exc = "UnknownMode"
                    /\ db' = db]_vars

C18_Witness ==
    /\ addressing_mode = UnknownMode
    /\ result.op = "set"
    /\ result.exc = "UnknownMode"
    /\ result.prefix \in ValidPrefixes
    /\ db.items # <<>>

\* C19: a case-sensitive store holds after construction the dictionary of the
\* file as it is, set() and get() use the key _get_key resolves without
\* folding it, and under mode nicks a set() leaves what get() returns for a
\* nick spelt in another case as it was.
C19_NoFolding ==
    [][case_sensitive =>
          /\ (Construct /\ fs[filename].tag = "pickle") => db' = fs[filename].obj
          /\ \A prefix \in ValidPrefixes :
                (result'.exc = None /\ result'.prefix = prefix) =>
                    /\ Get(prefix) =>
                         result'.val = DictGet(db.items, GetKey(prefix).key)
                    /\ Set(prefix) =>
                         /\ db' = Dict(DictSet(db.items, GetKey(prefix).key,
                                               NewIds[sets + 1]))
                         /\ addressing_mode = "nicks" =>
                              \A q \in ValidPrefixes :
                                 Component(q) # Component(prefix) =>
                                     GetCall(db', q).val = GetCall(db, q).val]_vars

C19_Witness ==
    /\ case_sensitive
    /\ addressing_mode = "nicks"
    /\ result.op = "set"
    /\ result.user = <<"B">>
    /\ DictGet(db.items, <<"B">>) = NewIds[1]
    /\ DictGet(db.items, <<"b">>) = "p"
    /\ GetCall(db, <<"b", "!", "h">>).val = "p"

\* C20: a case-insensitive store that is constructed and flushed, with no
\* set() in between, leaves a file from which a second store is constructed
\* with the dictionary the first one had after its construction.
C20_ReloadFixedPoint ==
    (pc = "idle" /\ result = FlushReturn /\ hist = <<>> /\ ~case_sensitive) =>
        /\ Constructed(fs[filename]).exc = None
        /\ Constructed(fs[filename]).obj = db

\* the dictionary came from a file with keys that are not lowercase: no
\* set() has returned yet
C20_Witness ==
    /\ pc = "idle"
    /\ result = FlushReturn
    /\ ~case_sensitive
    /\ sets = 0
    /\ db.items # <<>>
    /\ Constructed(fs[filename]).obj = db

====
